---- MODULE Spec2Model ----
(***************************************************************************)
(* PycroFlow: the protocol orchestration engine                            *)
(* (src/PycroFlow/orchestration.py) and the tubing-stack delivery          *)
(* scheduler (src/hamilton_system.py, LegacyArchitecture).                 *)
(*                                                                         *)
(* Orchestration: one worker thread per subsystem handler                  *)
(* (AbstractSystemHandler.run), one controlling thread calling the         *)
(* ProtocolOrchestrator methods, and the shared `threadexchange` board     *)
(* (message logs, locks, events).                                          *)
(*                                                                         *)
(* run_protocol, as written, evaluates                                     *)
(*     enumerate(start_entry, self.protocol['protocol_entries'])           *)
(* at orchestration.py:178.  enumerate's first argument is the iterable    *)
(* and its second the start value, so the call gets an int where an        *)
(* iterable is expected and a list where an int is expected and raises     *)
(* TypeError before the loop body runs once.  The exception leaves         *)
(* run_protocol and run(), and the worker thread ends.  The loop body      *)
(* (lines 179-201) is therefore never executed and has no action here.     *)
(***************************************************************************)
EXTENDS Integers, Sequences, FiniteSets, TLC

Systems == {"fluid", "img", "illu"}

\* ---- bounds of the model ----
MaxCalls == 4        \* calls the controlling thread makes on the orchestrator
MaxEntry == 1        \* largest start index given to start_protocol
MaxQueue == 1        \* items held by txchange['fluid_queue']
MaxScripted == 1     \* direct Handler.execute_protocol_entry calls
MaxSteps == 3        \* entries of the fluid protocol
MaxVol == 2          \* largest volume of an inject entry
MaxDead == 2         \* largest dead volume between a reservoir and pump_a
MaxShared == 1       \* largest dead volume of a tubing segment behind pump_a
MaxRecalDead == 1    \* largest dead volume of a replaced tubing configuration
MaxBuilderSteps == 3 \* steps a ProtocolBuilder holds, over its three lists
MaxHousekeeping == 2 \* housekeeping() calls that reach a subsystem
MaxInstanceCalls == 2 \* calls made on each of two ProtocolOrchestrator objects

VARIABLES
    bound,                \* bound[s]: handler s has a system (self.system is not None)
    start_protocol_flag,  \* txchange['start_protocol_flag']
    pause_protocol_flag,  \* txchange['pause_protocol_flag']
    abort_protocol_flag,  \* txchange['abort_protocol_flag']
    abort_flag,           \* txchange['abort_flag']
    graceful_stop_flag,   \* txchange['graceful_stop_flag']
    finished,             \* finished[s]: txchange[s + '_finished']
    txchange,             \* txchange[s]: the message log of subsystem s
    lock,                 \* lock[s]: txchange[s + '_lock'] is held
    inprogress,           \* inprogress[s]: the calls into system s now running
    fluid_queue,          \* txchange['fluid_queue']
    pc,                   \* pc[s]: where the worker thread of handler s is
    start_entry,          \* start_entry[s]: run_protocol's local variable
    ctl,                  \* the controlling thread: the orchestrator call it is in
    ncalls,               \* orchestrator calls made so far
    syscalls,             \* syscalls[s]: method calls received by system s
    protocol,             \* LegacyArchitecture.protocol: the fluid protocol entries
    tubing_config,        \* LegacyArchitecture.tubing_config
    tubing_stack,         \* LegacyArchitecture.tubing_stack: step -> injection tuples
    stack_status,         \* how the last _assemble_tubing_stack call ended, and its i
    last_protocol_entry,  \* LegacyArchitecture.last_protocol_entry
    pumped,               \* pumped[r]: the volume passed to _inject with the valves on r
    steps,                \* ProtocolBuilder.steps: the step lists of 'fluid', 'img', 'illu'
    reservoir_vols,       \* ProtocolBuilder.reservoir_vols
    threadexchange,       \* threadexchange[o]: the dict object o.threadexchange resolves to
    exchange_dicts,       \* exchange_dicts[d]: the flags and logs held by dict object d
    instance_calls        \* instance_calls[o]: the calls made on orchestrator object o

stackvars == <<protocol, tubing_config, tubing_stack, stack_status,
               last_protocol_entry, pumped>>

buildervars == <<steps, reservoir_vols>>

instancevars == <<threadexchange, exchange_dicts, instance_calls>>

orchvars == <<bound, start_protocol_flag, pause_protocol_flag, abort_protocol_flag,
              abort_flag, graceful_stop_flag, finished, txchange, lock, inprogress,
              fluid_queue, pc, start_entry, ctl, ncalls, syscalls>>

flagvars == <<start_protocol_flag, pause_protocol_flag, abort_protocol_flag,
              abort_flag, graceful_stop_flag>>

Idle == [op |-> "idle"]

\* the controlling thread after a call that ended with RuntimeError
IdleRaised == [op |-> "idle", raised |-> "RuntimeError"]

NoCalls == [execute_protocol_entry |-> 0, pause_execution |-> 0, abort_execution |-> 0]

\* f'start entry: {step}' for the step values of the model
StartEntryText == <<"start entry: 0", "start entry: 1", "start entry: 2", "start entry: 3">>

FormatStartEntry(step) == StartEntryText[step + 1]

\* 'start entry:' in msg
ContainsStartEntry(msg) == \E k \in 1..Len(StartEntryText) : StartEntryText[k] = msg

\* int(msg[len('start entry:'):].strip())
ParseStartEntry(msg) == (CHOOSE k \in 1..Len(StartEntryText) : StartEntryText[k] = msg) - 1

\* search_message's scan keeping the last message that contains the substring
LastStartEntry(messages) ==
    LET hits == {k \in 1..Len(messages) : ContainsStartEntry(messages[k])}
    IN  IF hits = {} THEN "None"
        ELSE messages[CHOOSE k \in hits : \A j \in hits : k >= j]

\* search_message's scan: the first message that contains the substring, or None
FirstStartEntry(messages) ==
    LET hits == {k \in 1..Len(messages) : ContainsStartEntry(messages[k])}
    IN  IF hits = {} THEN "None"
        ELSE messages[CHOOSE k \in hits : \A j \in hits : k <= j]

\* lines 172-176 of run_protocol
StartEntryOf(messages) ==
    LET msg == FirstStartEntry(messages)
    IN  IF msg /= "None" THEN ParseStartEntry(msg) ELSE 0

poll_protocol_finished == \A s \in Systems : finished[s]

Terminated(s) == pc[s] \in {"returned", "raised"}

OrchInit ==
    /\ bound \in [Systems -> BOOLEAN]
    /\ start_protocol_flag = FALSE
    /\ pause_protocol_flag = FALSE
    /\ abort_protocol_flag = FALSE
    /\ abort_flag = FALSE
    /\ graceful_stop_flag = FALSE
    /\ finished = [s \in Systems |-> FALSE]
    /\ txchange = [s \in Systems |-> <<>>]
    /\ lock = [s \in Systems |-> FALSE]
    /\ inprogress = [s \in Systems |-> {}]
    /\ fluid_queue = <<>>
    /\ pc = [s \in Systems |-> "new"]
    /\ start_entry = [s \in Systems |-> 0]
    /\ ctl = Idle
    /\ ncalls = 0
    /\ syscalls = [s \in Systems |-> NoCalls]

\* ---------------------------------------------------------------------------
\* Two ProtocolOrchestrator objects in one process
\* ---------------------------------------------------------------------------

Instances == {"first", "second"}

\* lines 321-337: `threadexchange = {...}` is a statement of the class body; it
\* is executed once, when the class is defined, and makes one dict, with one
\* set of locks, lists and events, bound to the class attribute
ClassDict == "ProtocolOrchestrator.threadexchange"

\* the dict literal of lines 321-337: events clear, logs empty
NewExchange ==
    [start_protocol_flag |-> FALSE, pause_protocol_flag |-> FALSE,
     abort_protocol_flag |-> FALSE,
     fluid |-> <<>>, img |-> <<>>, illu |-> <<>>]

\* lines 339-357: __init__ makes no dict and assigns no instance attribute
\* `threadexchange`, so self.threadexchange is the class attribute for every
\* instance, and that one dict is what each instance hands to its handlers
InstanceInit ==
    /\ threadexchange = [o \in Instances |-> ClassDict]
    /\ exchange_dicts = [d \in {ClassDict} |-> NewExchange]
    /\ instance_calls = [o \in Instances |-> 0]

\* a call on orchestrator object o that the model still makes
CanCallOn(o) == instance_calls[o] < MaxInstanceCalls

\* the log of system syst with the marker appended when its start step is given
log_with_marker(exchange, system_steps, syst) ==
    IF syst \in DOMAIN system_steps
    THEN Append(exchange[syst], FormatStartEntry(system_steps[syst]))
    ELSE exchange[syst]

\* lines 364-377, of object o: the markers go to the logs of
\* o.threadexchange and its start_protocol_flag is set
instance_start_protocol(o, system_steps) ==
    /\ CanCallOn(o)
    /\ instance_calls' = [instance_calls EXCEPT ![o] = @ + 1]
    /\ LET exchange == exchange_dicts[threadexchange[o]]
       IN  exchange_dicts' =
               [exchange_dicts EXCEPT ![threadexchange[o]] =
                   [exchange EXCEPT
                       !.fluid = log_with_marker(exchange, system_steps, "fluid"),
                       !.img = log_with_marker(exchange, system_steps, "img"),
                       !.illu = log_with_marker(exchange, system_steps, "illu"),
                       !.start_protocol_flag = TRUE]]
    /\ UNCHANGED <<orchvars, stackvars, buildervars, threadexchange>>

\* lines 379-380, of object o
instance_abort_protocol(o) ==
    /\ CanCallOn(o)
    /\ instance_calls' = [instance_calls EXCEPT ![o] = @ + 1]
    /\ exchange_dicts' = [exchange_dicts EXCEPT ![threadexchange[o]].abort_protocol_flag = TRUE]
    /\ UNCHANGED <<orchvars, stackvars, buildervars, threadexchange>>

\* lines 382-383, of object o
instance_pause_protocol(o) ==
    /\ CanCallOn(o)
    /\ instance_calls' = [instance_calls EXCEPT ![o] = @ + 1]
    /\ exchange_dicts' = [exchange_dicts EXCEPT ![threadexchange[o]].pause_protocol_flag = TRUE]
    /\ UNCHANGED <<orchvars, stackvars, buildervars, threadexchange>>

\* lines 385-386, of object o
instance_resume_protocol(o) ==
    /\ CanCallOn(o)
    /\ instance_calls' = [instance_calls EXCEPT ![o] = @ + 1]
    /\ exchange_dicts' = [exchange_dicts EXCEPT ![threadexchange[o]].pause_protocol_flag = FALSE]
    /\ UNCHANGED <<orchvars, stackvars, buildervars, threadexchange>>

\* ---------------------------------------------------------------------------
\* AbstractSystemHandler.run: the worker thread of handler s
\* ---------------------------------------------------------------------------

\* line 150 with the test inverted: `if self.system is not None`
SystemIsBound(s) == bound[s]

\* line 150: `if self.system is None`
SystemIsNone(s) == ~bound[s]

\* lines 150-152: an unbound handler sets its finished event and returns
run_start(s) ==
    /\ pc[s] = "start"
    /\ IF SystemIsNone(s)
       THEN /\ finished' = [finished EXCEPT ![s] = TRUE]
            /\ pc' = [pc EXCEPT ![s] = "returned"]
       ELSE /\ pc' = [pc EXCEPT ![s] = "loop"]
            /\ UNCHANGED finished
    /\ UNCHANGED <<instancevars, buildervars, stackvars, bound, flagvars, txchange, lock, inprogress, fluid_queue,
                   start_entry, ctl, ncalls, syscalls>>

\* lines 153-154 without the abort flag
LoopConditionWithoutAbort == ~graceful_stop_flag

\* lines 153-154 without the graceful-stop flag
LoopConditionWithoutGracefulStop == ~abort_flag

\* lines 153-154: the loop condition of run()
LoopCondition == (~abort_flag) /\ (~graceful_stop_flag)

\* lines 153-155: the loop ends, or run_protocol is entered (start flag set)
run_loop(s) ==
    /\ pc[s] = "loop"
    /\ \/ ~LoopCondition
       \/ start_protocol_flag
    /\ pc' = [pc EXCEPT ![s] = IF ~LoopCondition THEN "returned" ELSE "run_protocol"]
    /\ UNCHANGED <<instancevars, buildervars, stackvars, bound, flagvars, finished, txchange, lock, inprogress, fluid_queue,
                   start_entry, ctl, ncalls, syscalls>>

\* lines 165-166 with 267-274 (FluidHandler.work_queue; the other handlers'
\* work_queue is `pass`): one idle turn of the loop takes an item off the
\* queue.  An item whose 'fun' is 'deliver' makes line 274 evaluate
\* item('kwargs'), a call of a dict, which raises TypeError; any other item is
\* dropped.
work_queue(s) ==
    /\ pc[s] = "loop"
    /\ LoopCondition
    /\ ~start_protocol_flag
    /\ s = "fluid"
    /\ fluid_queue /= <<>>
    /\ fluid_queue' = Tail(fluid_queue)
    /\ pc' = [pc EXCEPT ![s] = IF Head(fluid_queue) = "deliver" THEN "raised" ELSE "loop"]
    /\ UNCHANGED <<instancevars, buildervars, stackvars, bound, flagvars, finished, txchange, lock, inprogress,
                   start_entry, ctl, ncalls, syscalls>>

\* lines 172 and 232-233: search_message takes the handler's own lock, binds
\* `messages` to the log (the list object itself, not a copy) and releases the
\* lock at the end of the `with` block
search_message(s) ==
    /\ pc[s] = "run_protocol"
    /\ ~lock[s]
    /\ pc' = [pc EXCEPT ![s] = "scan"]
    /\ UNCHANGED <<instancevars, buildervars, stackvars, bound, flagvars, finished, txchange, lock, inprogress, fluid_queue,
                   start_entry, ctl, ncalls, syscalls>>

\* lines 234-238 and 173-176: after the `with` block, the log is scanned for
\* the first 'start entry:' marker; the scan sees the log as it is now
search_message_scan(s) ==
    /\ pc[s] = "scan"
    /\ start_entry' = [start_entry EXCEPT ![s] = StartEntryOf(txchange[s])]
    /\ pc' = [pc EXCEPT ![s] = "enumerate"]
    /\ UNCHANGED <<instancevars, buildervars, stackvars, bound, flagvars, finished, txchange, lock, inprogress, fluid_queue,
                   ctl, ncalls, syscalls>>

\* line 178 iterating over nothing instead of raising
EnumerateIsEmpty(s) == FALSE

\* line 178: enumerate(start_entry, entries) raises TypeError, whatever the
\* start entry and the entries are
EnumerateRaises(s) == TRUE

\* line 178 with the executor clearing the start flag on its way out
run_protocol_enumerate_clearing(s) ==
    /\ pc[s] = "enumerate"
    /\ pc' = [pc EXCEPT ![s] = "raised"]
    /\ start_protocol_flag' = FALSE
    /\ start_entry' = [start_entry EXCEPT ![s] = 0]
    /\ UNCHANGED <<instancevars, buildervars, stackvars, bound, pause_protocol_flag, abort_protocol_flag, abort_flag,
                   graceful_stop_flag, finished, txchange, lock, inprogress, fluid_queue,
                   ctl, ncalls, syscalls>>

\* line 178: the TypeError ends run_protocol, run() and the thread.  (Were the
\* call to yield an empty iteration, line 200 would set the finished event.)
run_protocol_enumerate(s) ==
    /\ pc[s] = "enumerate"
    /\ IF EnumerateRaises(s)
       THEN /\ pc' = [pc EXCEPT ![s] = "raised"]
            /\ UNCHANGED finished
       ELSE /\ pc' = [pc EXCEPT ![s] = "returned"]
            /\ finished' = [finished EXCEPT ![s] = TRUE]
    /\ start_entry' = [start_entry EXCEPT ![s] = 0]
    /\ UNCHANGED <<instancevars, buildervars, stackvars, bound, flagvars, txchange, lock, inprogress, fluid_queue,
                   ctl, ncalls, syscalls>>

Worker(s) ==
    \/ run_start(s)
    \/ run_loop(s)
    \/ work_queue(s)
    \/ search_message(s)
    \/ search_message_scan(s)
    \/ run_protocol_enumerate(s)

\* ---------------------------------------------------------------------------
\* Handler.execute_protocol_entry called on a handler object by another
\* thread (tests/test_orchestration.py:43 calls it directly)
\* ---------------------------------------------------------------------------

\* line 264 without the `with` block: the call does not wait for the lock
HandlerLockIgnored(s) == TRUE

\* line 264 (294, 310): `with self.txchange[self.target + '_lock']`
HandlerLockFree(s) == ~lock[s]

ScriptedCalls == syscalls["fluid"].execute_protocol_entry
                 + syscalls["img"].execute_protocol_entry
                 + syscalls["illu"].execute_protocol_entry

\* lines 263-265: the lock is taken and system.execute_protocol_entry(i) starts
execute_protocol_entry(s) ==
    /\ bound[s]
    /\ ScriptedCalls < MaxScripted
    /\ HandlerLockFree(s)
    /\ lock' = [lock EXCEPT ![s] = TRUE]
    /\ inprogress' = [inprogress EXCEPT ![s] = @ \cup {"scripted"}]
    /\ syscalls' = [syscalls EXCEPT ![s].execute_protocol_entry = @ + 1]
    /\ UNCHANGED <<instancevars, buildervars, stackvars, bound, flagvars, finished, txchange, fluid_queue, pc,
                   start_entry, ctl, ncalls>>

\* line 265 returns and the with block releases the lock
execute_protocol_entry_return(s) ==
    /\ "scripted" \in inprogress[s]
    /\ lock' = [lock EXCEPT ![s] = FALSE]
    /\ inprogress' = [inprogress EXCEPT ![s] = @ \ {"scripted"}]
    /\ UNCHANGED <<instancevars, buildervars, stackvars, bound, flagvars, finished, txchange, fluid_queue, pc,
                   start_entry, ctl, ncalls, syscalls>>

\* ---------------------------------------------------------------------------
\* AbstractSystemHandler.housekeeping.  run_protocol calls it at line 196,
\* inside the loop body that line 178 keeps from running; here the method is
\* called on the handler object, by the thread that owns the handler.
\* ---------------------------------------------------------------------------

HousekeepingCalls ==
    syscalls["fluid"].abort_execution + syscalls["fluid"].pause_execution
    + syscalls["img"].abort_execution + syscalls["img"].pause_execution
    + syscalls["illu"].abort_execution + syscalls["illu"].pause_execution

\* lines 203-212: with abort or abort-protocol set system.abort_execution()
\* is called (line 206), else with pause set system.pause_execution() (line
\* 209), else nothing; neither call is inside a `with ..._lock` block, the
\* lock is neither waited for nor taken
housekeeping(s) ==
    /\ bound[s]
    /\ "housekeeping" \notin inprogress[s]
    /\ HousekeepingCalls < MaxHousekeeping
    /\ IF abort_protocol_flag \/ abort_flag
       THEN /\ syscalls' = [syscalls EXCEPT ![s].abort_execution = @ + 1]
            /\ inprogress' = [inprogress EXCEPT ![s] = @ \cup {"housekeeping"}]
       ELSE IF pause_protocol_flag
       THEN /\ syscalls' = [syscalls EXCEPT ![s].pause_execution = @ + 1]
            /\ inprogress' = [inprogress EXCEPT ![s] = @ \cup {"housekeeping"}]
       ELSE UNCHANGED <<syscalls, inprogress>>
    /\ UNCHANGED <<instancevars, buildervars, stackvars, bound, flagvars, finished, txchange, lock,
                   fluid_queue, pc, start_entry, ctl, ncalls>>

\* lines 206-207 and 209-210: the subsystem call returns, housekeeping
\* returns False
housekeeping_return(s) ==
    /\ "housekeeping" \in inprogress[s]
    /\ inprogress' = [inprogress EXCEPT ![s] = @ \ {"housekeeping"}]
    /\ UNCHANGED <<instancevars, buildervars, stackvars, bound, flagvars, finished, txchange, lock,
                   fluid_queue, pc, start_entry, ctl, ncalls, syscalls>>

\* ---------------------------------------------------------------------------
\* ProtocolOrchestrator: the calls of the controlling thread
\* ---------------------------------------------------------------------------

CanCall == ctl.op = "idle" /\ ncalls < MaxCalls

\* lines 359-362 with threads that can be started again
start_orchestration_restarting ==
    /\ CanCall
    /\ ncalls' = ncalls + 1
    /\ pc' = [s \in Systems |-> "start"]
    /\ ctl' = Idle
    /\ UNCHANGED <<instancevars, buildervars, stackvars, bound, flagvars, finished, txchange, lock, inprogress, fluid_queue,
                   start_entry, syscalls>>

\* lines 359-362: Thread.start() raises RuntimeError on a thread that was
\* started before (running or ended), and the first start() is fluid_handler's
start_orchestration ==
    /\ CanCall
    /\ ncalls' = ncalls + 1
    /\ IF pc["fluid"] = "new"
       THEN /\ pc' = [s \in Systems |-> "start"]
            /\ ctl' = Idle
       ELSE /\ pc' = pc
            /\ ctl' = IdleRaised
    /\ UNCHANGED <<instancevars, buildervars, stackvars, bound, flagvars, finished, txchange, lock, inprogress, fluid_queue,
                   start_entry, syscalls>>

\* the system_steps arguments of the model: no start step, or one system's
SystemSteps == UNION {[S -> 0..MaxEntry] : S \in {T \in SUBSET Systems : Cardinality(T) <= 1}}

\* lines 372-375: each marker is appended under the lock of its system (the
\* call waits until that lock is free)
start_protocol ==
    /\ CanCall
    /\ ncalls' = ncalls + 1
    /\ \E system_steps \in SystemSteps :
           /\ \A syst \in DOMAIN system_steps : ~lock[syst]
           /\ txchange' = [s \in Systems |->
                             IF s \in DOMAIN system_steps
                             THEN Append(txchange[s], FormatStartEntry(system_steps[s]))
                             ELSE txchange[s]]
    /\ ctl' = [op |-> "start_protocol"]
    /\ UNCHANGED <<instancevars, buildervars, stackvars, bound, flagvars, finished, lock, inprogress, fluid_queue,
                   pc, start_entry, syscalls>>

\* line 377
start_protocol_set ==
    /\ ctl.op = "start_protocol"
    /\ start_protocol_flag' = TRUE
    /\ ctl' = Idle
    /\ UNCHANGED <<instancevars, buildervars, stackvars, bound, pause_protocol_flag, abort_protocol_flag, abort_flag,
                   graceful_stop_flag, finished, txchange, lock, inprogress,
                   fluid_queue, pc, start_entry, ncalls, syscalls>>

\* lines 379-380
abort_protocol ==
    /\ CanCall
    /\ ncalls' = ncalls + 1
    /\ abort_protocol_flag' = TRUE
    /\ ctl' = Idle
    /\ UNCHANGED <<instancevars, buildervars, stackvars, bound, start_protocol_flag, pause_protocol_flag, abort_flag,
                   graceful_stop_flag, finished, txchange, lock, inprogress,
                   fluid_queue, pc, start_entry, syscalls>>

\* lines 382-383
pause_protocol ==
    /\ CanCall
    /\ ncalls' = ncalls + 1
    /\ pause_protocol_flag' = TRUE
    /\ ctl' = Idle
    /\ UNCHANGED <<instancevars, buildervars, stackvars, bound, start_protocol_flag, abort_protocol_flag, abort_flag,
                   graceful_stop_flag, finished, txchange, lock, inprogress,
                   fluid_queue, pc, start_entry, syscalls>>

\* lines 385-386
resume_protocol ==
    /\ CanCall
    /\ ncalls' = ncalls + 1
    /\ pause_protocol_flag' = FALSE
    /\ ctl' = Idle
    /\ UNCHANGED <<instancevars, buildervars, stackvars, bound, start_protocol_flag, abort_protocol_flag, abort_flag,
                   graceful_stop_flag, finished, txchange, lock, inprogress,
                   fluid_queue, pc, start_entry, syscalls>>

\* lines 388-389
abort_orchestration ==
    /\ CanCall
    /\ ncalls' = ncalls + 1
    /\ abort_flag' = TRUE
    /\ ctl' = [op |-> "join"]
    /\ UNCHANGED <<instancevars, buildervars, stackvars, bound, start_protocol_flag, pause_protocol_flag, abort_protocol_flag,
                   graceful_stop_flag, finished, txchange, lock, inprogress,
                   fluid_queue, pc, start_entry, syscalls>>

\* lines 401-402
end_orchestration ==
    /\ CanCall
    /\ ncalls' = ncalls + 1
    /\ graceful_stop_flag' = TRUE
    /\ ctl' = [op |-> "join"]
    /\ UNCHANGED <<instancevars, buildervars, stackvars, bound, start_protocol_flag, pause_protocol_flag, abort_protocol_flag,
                   abort_flag, finished, txchange, lock, inprogress,
                   fluid_queue, pc, start_entry, syscalls>>

\* lines 390-392 and 403-405: the three join() calls return once every worker
\* has ended; join() on a thread that was never started raises RuntimeError
join_handlers ==
    /\ ctl.op = "join"
    /\ \/ pc["fluid"] = "new"
       \/ \A s \in Systems : Terminated(s)
    /\ ctl' = IF pc["fluid"] = "new" THEN IdleRaised ELSE Idle
    /\ UNCHANGED <<instancevars, buildervars, stackvars, bound, flagvars, finished, txchange, lock, inprogress, fluid_queue,
                   pc, start_entry, ncalls, syscalls>>

\* lines 407-409
enqueue_fluid_function ==
    /\ CanCall
    /\ Len(fluid_queue) < MaxQueue
    /\ ncalls' = ncalls + 1
    /\ \E function \in {"deliver", "other"} : fluid_queue' = Append(fluid_queue, function)
    /\ ctl' = Idle
    /\ UNCHANGED <<instancevars, buildervars, stackvars, bound, flagvars, finished, txchange, lock, inprogress, pc,
                   start_entry, syscalls>>

\* line 426: `with self.threadexchange[target + '_lock']`
OrchestratorLockFree(target) == ~lock[target]

\* lines 411-427: the call waits for the target's lock, takes it and starts
\* fun(*args, **kwargs)
execute_system_function ==
    /\ CanCall
    /\ ncalls' = ncalls + 1
    /\ \E target \in Systems :
           /\ OrchestratorLockFree(target)
           /\ lock' = [lock EXCEPT ![target] = TRUE]
           /\ inprogress' = [inprogress EXCEPT ![target] = @ \cup {"manual"}]
           /\ ctl' = [op |-> "fun", target |-> target]
    /\ UNCHANGED <<instancevars, buildervars, stackvars, bound, flagvars, finished, txchange, fluid_queue, pc,
                   start_entry, syscalls>>

\* line 427 returns and the lock is kept (an acquire() without its release())
execute_system_function_return_holding ==
    /\ ctl.op = "fun"
    /\ ctl' = Idle
    /\ UNCHANGED <<instancevars, buildervars, stackvars, bound, flagvars, finished, txchange, lock, inprogress,
                   fluid_queue, pc, start_entry, ncalls, syscalls>>

\* line 427 returns (or raises) and the with block releases the lock
execute_system_function_return ==
    /\ ctl.op = "fun"
    /\ lock' = [lock EXCEPT ![ctl.target] = FALSE]
    /\ inprogress' = [inprogress EXCEPT ![ctl.target] = @ \ {"manual"}]
    /\ ctl' = Idle
    /\ UNCHANGED <<instancevars, buildervars, stackvars, bound, flagvars, finished, txchange, fluid_queue, pc,
                   start_entry, ncalls, syscalls>>

\* ---------------------------------------------------------------------------
\* LegacyArchitecture (src/hamilton_system.py): the tubing stack
\* ---------------------------------------------------------------------------

\* the reservoir ids of the system configuration of the unit tests
\* (hamilton_system.py:821-825); 0 is also the value np.zeros leaves in
\* `reservoirs` for an entry that is neither inject nor flush
Reservoirs == {0, 1, 3}

\* special_names['flushbuffer_a'] of that configuration
flushbuffer_a == 3

InjectEntries == {[type |-> "inject", reservoir_id |-> r, volume |-> v] :
                    r \in Reservoirs, v \in 1..MaxVol}

\* the entries of the model: injections, a flush with the default flushfactor,
\* and an entry of another type (acquire)
Entries == InjectEntries \cup {[type |-> "flush", flushfactor |-> 1], [type |-> "acquire"]}

Protocols == UNION {[1..n -> Entries] : n \in 1..MaxSteps}

TubingConfigs == [pump_a : [Reservoirs -> 0..MaxDead],
                  pump_a_valve_flush : 0..MaxShared,
                  valve_flush_sample : 0..MaxShared]

\* lines 558-565
calc_vol_to_inlet(reservoir_id) ==
    tubing_config.pump_a[reservoir_id]
    + tubing_config.pump_a_valve_flush
    + tubing_config.valve_flush_sample

\* lines 510-526: the reservoir of position idx of the remaining entries; the
\* last position is the flush buffer
reservoirs_of(entries) ==
    [idx \in 0..Len(entries) |->
        IF idx = Len(entries) THEN flushbuffer_a
        ELSE LET pentry == entries[idx + 1]
             IN  IF pentry.type = "inject" THEN pentry.reservoir_id
                 ELSE IF pentry.type = "flush" THEN flushbuffer_a
                 ELSE 0]

\* lines 510-526: the volume of position idx; the last position is the flush
\* buffer's volume to the inlet
volumes_of(entries) ==
    [idx \in 0..Len(entries) |->
        IF idx = Len(entries) THEN calc_vol_to_inlet(flushbuffer_a)
        ELSE LET pentry == entries[idx + 1]
             IN  IF pentry.type = "inject" THEN pentry.volume
                 ELSE IF pentry.type = "flush"
                      THEN pentry.flushfactor
                           * (tubing_config.pump_a[flushbuffer_a]
                              + tubing_config.pump_a_valve_flush)
                 ELSE 0]

RECURSIVE cumsum_at(_, _)
cumsum_at(volumes, idx) ==
    IF idx = 0 THEN volumes[0] ELSE cumsum_at(volumes, idx - 1) + volumes[idx]

\* line 528: np.cumsum(volumes)
cumsum(volumes) == [idx \in DOMAIN volumes |-> cumsum_at(volumes, idx)]

\* lines 532-540 without the subtraction of lines 536-540
needed_volume_first(idx, reservoirs, volumes) ==
    volumes[idx] + calc_vol_to_inlet(reservoirs[idx])

\* lines 532-540: the volume that has to enter the tubing at position idx
needed_volume(idx, reservoirs, volumes) ==
    IF idx = 0
    THEN volumes[idx] + calc_vol_to_inlet(reservoirs[idx])
    ELSE volumes[idx] + calc_vol_to_inlet(reservoirs[idx])
         - calc_vol_to_inlet(reservoirs[idx - 1])

\* np.argwhere(...).flatten()[0] on a non-empty selection
first_index(S) == CHOOSE k \in S : \A j \in S : k <= j

\* line 548 with the min() dropped: the whole rest taken from one reservoir
vol_step_unbounded(vol_rest, cum_at_idx) == vol_rest

\* line 548: min([vol_rest, volumes_cum[cum_idx]])
vol_step_of(vol_rest, cum_at_idx) == IF vol_rest <= cum_at_idx THEN vol_rest ELSE cum_at_idx

\* lines 547-554: the loop over range(cum_start, cum_stop)
RECURSIVE injection_loop(_, _, _, _, _, _)
injection_loop(cum_idx, cum_stop, reservoirs, volumes_cum, vol_rest, injection_tuples) ==
    IF cum_idx >= cum_stop
    THEN [volumes_cum |-> volumes_cum, injection_tuples |-> injection_tuples]
    ELSE LET vol_step == vol_step_of(vol_rest, volumes_cum[cum_idx])
         IN  IF vol_step = 0
             THEN injection_loop(cum_idx + 1, cum_stop, reservoirs, volumes_cum,
                                 vol_rest, injection_tuples)
             ELSE injection_loop(cum_idx + 1, cum_stop, reservoirs,
                                 [k \in DOMAIN volumes_cum |-> volumes_cum[k] - vol_step],
                                 vol_rest - vol_step,
                                 Append(injection_tuples, <<reservoirs[cum_idx], vol_step>>))

\* lines 530-555: the loop over the steps i .. i + nsteps - 1.  Line 542 raises
\* IndexError when no element of volumes_cum is positive; the IndexError of
\* line 544 is caught (lines 545-546).
RECURSIVE step_loop(_, _, _, _, _, _, _)
step_loop(idx, i, nsteps, reservoirs, volumes, volumes_cum, column) ==
    IF idx >= nsteps
    THEN [error |-> "none", column |-> column]
    ELSE LET vol == needed_volume(idx, reservoirs, volumes)
             positive == {k \in 0..nsteps : volumes_cum[k] > 0}
             above == {k \in 0..nsteps : volumes_cum[k] > vol}
         IN  IF positive = {}
             THEN [error |-> "IndexError", column |-> column]
             ELSE LET cum_start == first_index(positive)
                      cum_stop == IF above = {} THEN nsteps + 1 ELSE first_index(above) + 1
                      done == injection_loop(cum_start, cum_stop, reservoirs,
                                             volumes_cum, vol, <<>>)
                  IN  step_loop(idx + 1, i, nsteps, reservoirs, volumes, done.volumes_cum,
                                [step \in i..(i + idx) |->
                                    IF step = i + idx THEN done.injection_tuples
                                    ELSE column[step]])

\* lines 505-555: the column built by _assemble_tubing_stack(i), or its error
assemble(i) ==
    LET entries == SubSeq(protocol, i + 1, Len(protocol))
        nsteps == Len(entries)
        reservoirs == reservoirs_of(entries)
        volumes == volumes_of(entries)
    IN  step_loop(0, i, nsteps, reservoirs, volumes, cumsum(volumes), <<>>)

\* lines 490-556 with the slice of line 506 assigned to self.protocol
assemble_tubing_stack_slicing(i) ==
    /\ \E result \in {assemble(i)} :
           /\ stack_status' = [result |-> result.error, i |-> i]
           /\ tubing_stack' = IF result.error = "none" THEN result.column ELSE tubing_stack
    /\ protocol' = SubSeq(protocol, i + 1, Len(protocol))
    /\ UNCHANGED <<instancevars, buildervars, orchvars, tubing_config, last_protocol_entry, pumped>>

\* lines 490-556: _assemble_tubing_stack(i); line 556 assigns the column, and
\* is not reached when line 542 raises
assemble_tubing_stack(i) ==
    /\ \E result \in {assemble(i)} :
           /\ stack_status' = [result |-> result.error, i |-> i]
           /\ tubing_stack' = IF result.error = "none" THEN result.column ELSE tubing_stack
    /\ UNCHANGED <<instancevars, buildervars, orchvars, protocol, tubing_config, last_protocol_entry, pumped>>

\* lines 460-462: the volume of the injection tuples that name reservoir r
RECURSIVE tuple_sum(_, _)
tuple_sum(injection_tuples, r) ==
    IF injection_tuples = <<>> THEN 0
    ELSE (IF Head(injection_tuples)[1] = r THEN Head(injection_tuples)[2] ELSE 0)
         + tuple_sum(Tail(injection_tuples), r)

\* the entries of a fluid protocol: those of Entries and an entry the executor
\* handles itself and never hands to the fluid system (incubate)
WalkEntries == Entries \cup {[type |-> "incubate"]}

WalkProtocols == UNION {[1..n -> WalkEntries] : n \in 1..MaxSteps}

\* orchestration.py:181-193: the entries the executor hands to its system
Delegated == {k \in 0..(Len(protocol) - 1) : protocol[k + 1].type /= "incubate"}

\* line 458 with a condition that always holds
NeedsReassemblyAlways(i) == TRUE

\* line 458: `(self.last_protocol_entry != i - 1) or (i == 0)`
NeedsReassembly(i) == (last_protocol_entry /= i - 1) \/ (i = 0)

\* hamilton_system.py:445-463, mode 'tubing_stack': execute_protocol_entry(i)
\* of the fluid system, called for the next entry the executor hands over
\* (orchestration.py:193).  An IndexError of the assembly leaves the call and
\* ends the walk.
LegacyArchitecture_execute_protocol_entry(i) ==
    /\ i \in Delegated
    /\ i > last_protocol_entry
    /\ \A k \in Delegated : k > last_protocol_entry => i <= k
    /\ stack_status.result /= "IndexError"
    /\ \E result \in {IF NeedsReassembly(i) THEN assemble(i)
                       ELSE [error |-> "none", column |-> tubing_stack]} :
           IF result.error = "none"
           THEN /\ tubing_stack' = result.column
                /\ stack_status' = IF NeedsReassembly(i)
                                   THEN [result |-> "none", i |-> i]
                                   ELSE stack_status
                /\ pumped' = [r \in Reservoirs |->
                                 pumped[r] + tuple_sum(result.column[i], r)]
                /\ last_protocol_entry' = i
           ELSE /\ stack_status' = [result |-> result.error, i |-> i]
                /\ UNCHANGED <<tubing_stack, pumped, last_protocol_entry>>
    /\ UNCHANGED <<instancevars, buildervars, orchvars, protocol, tubing_config>>

\* lines 427-428: _assign_tubing_config(config) replaces the tubing
\* configuration and nothing else
assign_tubing_config(config) ==
    /\ tubing_config' = config
    /\ UNCHANGED <<instancevars, buildervars, orchvars, protocol, tubing_stack, stack_status,
                   last_protocol_entry, pumped>>

\* the tubing configurations given to _assign_tubing_config: dead volumes
\* between the reservoirs and pump_a, nothing behind the pump
RecalConfigs ==
    {c \in TubingConfigs : /\ c.pump_a_valve_flush = 0
                           /\ c.valve_flush_sample = 0
                           /\ \A r \in Reservoirs : c.pump_a[r] <= MaxRecalDead}

\* a LegacyArchitecture with a protocol assigned (lines 394-428) and no stack
\* assembled yet
StackInit ==
    /\ protocol \in Protocols
    /\ tubing_config \in TubingConfigs
    /\ tubing_stack = <<>>
    /\ stack_status = [result |-> "never", i |-> 0]
    /\ last_protocol_entry = -1
    /\ pumped = [r \in Reservoirs |-> 0]

\* the fluid system left untouched
StackIdle ==
    /\ protocol = <<>>
    /\ tubing_config = [pump_a |-> [r \in Reservoirs |-> 0],
                        pump_a_valve_flush |-> 0, valve_flush_sample |-> 0]
    /\ tubing_stack = <<>>
    /\ stack_status = [result |-> "never", i |-> 0]
    /\ last_protocol_entry = -1
    /\ pumped = [r \in Reservoirs |-> 0]

\* ---------------------------------------------------------------------------
\* ProtocolBuilder (src/PycroFlow/protocols.py): the step lists
\* ---------------------------------------------------------------------------

\* the ids of config['fluid']['settings']['reservoir_names']
reservoir_names == {0, 1}

\* the reservoir ids given to create_step_inject: those of the configuration
\* and one that is not a key of reservoir_vols
ReservoirIds == reservoir_names \cup {2}

\* the volumes asked for; none of them is 1, so that a stored volume of 1 is
\* a request that was not positive
RequestedVolumes == {-1, 0, MaxVol, MaxVol + 1}

\* extractionfactor: None (the default) or the 0 create_stepset_flush passes,
\* written as text
ExtractionFactors == {"None", "0"}

\* create_steps, lines 144-146: empty step lists, every reservoir at 0
BuilderInit ==
    /\ steps = [fluid |-> <<>>, img |-> <<>>, illu |-> <<>>]
    /\ reservoir_vols = [id \in reservoir_names |-> 0]

BuilderSteps == Len(steps.fluid) + Len(steps.img) + Len(steps.illu)

\* line 1011 without the replacement of a volume that is not positive
volume_as_requested(volume) == volume

\* lines 986 and 1011: `volume if volume > 0 else 1`
volume_or_one(volume) == IF volume > 0 THEN volume ELSE 1

\* with_extractionfactor: the step dict with the optional key (lines 990-991, 1017-1018)
with_extractionfactor(pars, extractionfactor) ==
    IF extractionfactor = "None" THEN pars
    ELSE [k \in DOMAIN pars \cup {"extractionfactor"} |->
             IF k = "extractionfactor" THEN extractionfactor ELSE pars[k]]

\* lines 1011-1019 (the key '$type' of the dicts is the field `type`).  With a
\* reservoir_id that is not a key of reservoir_vols, line 1019 raises KeyError
\* after line 1012 has appended the step.
create_step_inject(volume, reservoir_id, delay, extractionfactor) ==
    /\ BuilderSteps < MaxBuilderSteps
    /\ steps' = [steps EXCEPT !.fluid =
                    Append(@, with_extractionfactor(
                                  [type |-> "inject",
                                   volume |-> volume_or_one(volume),
                                   reservoir_id |-> reservoir_id,
                                   delay |-> delay], extractionfactor))]
    /\ reservoir_vols' = IF reservoir_id \in DOMAIN reservoir_vols
                         THEN [reservoir_vols EXCEPT
                                  ![reservoir_id] = @ + volume_or_one(volume)]
                         ELSE reservoir_vols
    /\ UNCHANGED <<instancevars, orchvars, stackvars>>

\* lines 986-992
create_step_pumpout(volume, extractionfactor) ==
    /\ BuilderSteps < MaxBuilderSteps
    /\ steps' = [steps EXCEPT !.fluid =
                    Append(@, with_extractionfactor(
                                  [type |-> "pump_out", volume |-> volume_or_one(volume)],
                                  extractionfactor))]
    /\ UNCHANGED <<instancevars, orchvars, stackvars, reservoir_vols>>

\* lines 1021-1024
create_step_signal(system, message) ==
    /\ BuilderSteps < MaxBuilderSteps
    /\ steps' = [steps EXCEPT ![system] = Append(@, [type |-> "signal", value |-> message])]
    /\ UNCHANGED <<instancevars, orchvars, stackvars, reservoir_vols>>

\* lines 1032-1037
create_step_acquire(nframes, t_exp, message) ==
    /\ BuilderSteps < MaxBuilderSteps
    /\ steps' = [steps EXCEPT !.img =
                    Append(@, [type |-> "acquire", frames |-> nframes,
                               t_exp |-> t_exp, message |-> message])]
    /\ UNCHANGED <<instancevars, orchvars, stackvars, reservoir_vols>>

\* the orchestrator left untouched
OrchIdle ==
    /\ OrchInit
    /\ bound = [s \in Systems |-> FALSE]

vars == <<orchvars, stackvars, buildervars, instancevars>>

Init == OrchInit /\ StackIdle /\ BuilderInit /\ InstanceInit

\* The orchestrator driven through its control surface: the three workers and
\* the calls of the controlling thread.
Next ==
    \/ \E s \in Systems : run_start(s)
    \/ \E s \in Systems : run_loop(s)
    \/ \E s \in Systems : work_queue(s)
    \/ \E s \in Systems : search_message(s)
    \/ \E s \in Systems : search_message_scan(s)
    \/ \E s \in Systems : run_protocol_enumerate(s)
    \/ start_orchestration
    \/ start_protocol
    \/ start_protocol_set
    \/ abort_protocol
    \/ pause_protocol
    \/ resume_protocol
    \/ abort_orchestration
    \/ end_orchestration
    \/ join_handlers
    \/ enqueue_fluid_function
    \/ execute_system_function
    \/ execute_system_function_return

Spec == Init /\ [][Next]_vars

\* Python's threads are scheduled preemptively: a worker that can take a step
\* eventually takes it.  The calls the controlling thread has begun run to
\* their end (fun returns, the joins return once the workers have ended);
\* which calls it makes, and when, is left open.
Fairness ==
    /\ \A s \in Systems : WF_vars(Worker(s))
    /\ WF_vars(start_protocol_set)
    /\ WF_vars(join_handlers)
    /\ WF_vars(execute_system_function_return)

FairSpec == Spec /\ Fairness

\* The users of the subsystem locks: the workers, the calls of the controlling
\* thread that take a lock, and a thread that calls
\* Handler.execute_protocol_entry on the handler objects.
NextLock ==
    \/ \E s \in Systems : run_start(s)
    \/ \E s \in Systems : run_loop(s)
    \/ \E s \in Systems : search_message(s)
    \/ \E s \in Systems : search_message_scan(s)
    \/ \E s \in Systems : run_protocol_enumerate(s)
    \/ \E s \in Systems : execute_protocol_entry(s)
    \/ \E s \in Systems : execute_protocol_entry_return(s)
    \/ start_orchestration
    \/ start_protocol
    \/ start_protocol_set
    \/ execute_system_function
    \/ execute_system_function_return

SpecLock == Init /\ [][NextLock]_vars

\* housekeeping() next to the manual commands of the controlling thread.
NextHousekeeping ==
    \/ \E s \in Systems : housekeeping(s)
    \/ \E s \in Systems : housekeeping_return(s)
    \/ abort_protocol
    \/ pause_protocol
    \/ execute_system_function
    \/ execute_system_function_return

SpecHousekeeping == Init /\ [][NextHousekeeping]_vars

\* Two orchestrator objects, constructed one after the other, and the calls
\* a controlling thread makes on either.
InitInstances == OrchIdle /\ StackIdle /\ BuilderInit /\ InstanceInit

NextInstances ==
    \/ \E o \in Instances : \E system_steps \in SystemSteps :
           instance_start_protocol(o, system_steps)
    \/ \E o \in Instances : instance_abort_protocol(o)
    \/ \E o \in Instances : instance_pause_protocol(o)
    \/ \E o \in Instances : instance_resume_protocol(o)

SpecInstances == InitInstances /\ [][NextInstances]_vars

\* The tubing-stack scheduler on every protocol and tubing configuration of
\* the model.
InitStack == OrchIdle /\ StackInit /\ BuilderInit /\ InstanceInit

NextStack == \E i \in 0..(Len(protocol) - 1) : assemble_tubing_stack(i)

SpecStack == InitStack /\ [][NextStack]_vars

\* The scheduler on the sequence [inject(0, 500), inject(1, 200)] with 100
\* between reservoir 0 and the pump and 50 between the pump and the sample,
\* for several dead volumes of reservoir 1 and of the flush buffer.
ScenarioVolumes == {0, 50, 100, 150, 200}

InitScenario ==
    /\ OrchIdle
    /\ BuilderInit /\ InstanceInit
    /\ protocol = <<[type |-> "inject", reservoir_id |-> 0, volume |-> 500],
                    [type |-> "inject", reservoir_id |-> 1, volume |-> 200]>>
    /\ tubing_config \in {c \in [pump_a : [Reservoirs -> ScenarioVolumes],
                                 pump_a_valve_flush : {0, 25, 50},
                                 valve_flush_sample : {0, 25, 50}] :
                              /\ c.pump_a[0] = 100
                              /\ c.pump_a_valve_flush + c.valve_flush_sample = 50}
    /\ tubing_stack = <<>>
    /\ stack_status = [result |-> "never", i |-> 0]
    /\ last_protocol_entry = -1
    /\ pumped = [r \in Reservoirs |-> 0]

SpecScenario == InitScenario /\ [][NextStack]_vars

\* The fluid system walked by its executor: every protocol with entries the
\* executor keeps to itself, every tubing configuration of the model.
InitWalk ==
    /\ OrchIdle
    /\ BuilderInit /\ InstanceInit
    /\ protocol \in WalkProtocols
    /\ tubing_config \in TubingConfigs
    /\ tubing_stack = <<>>
    /\ stack_status = [result |-> "never", i |-> 0]
    /\ last_protocol_entry = -1
    /\ pumped = [r \in Reservoirs |-> 0]

NextWalk == \E i \in 0..(Len(protocol) - 1) : LegacyArchitecture_execute_protocol_entry(i)

SpecWalk == InitWalk /\ [][NextWalk]_vars

\* The fluid system walked through its protocol while its tubing configuration
\* is replaced between calls.
InitRecal ==
    /\ OrchIdle
    /\ BuilderInit /\ InstanceInit
    /\ protocol \in Protocols
    /\ tubing_config \in RecalConfigs
    /\ tubing_stack = <<>>
    /\ stack_status = [result |-> "never", i |-> 0]
    /\ last_protocol_entry = -1
    /\ pumped = [r \in Reservoirs |-> 0]

NextRecal ==
    \/ \E i \in 0..(Len(protocol) - 1) : LegacyArchitecture_execute_protocol_entry(i)
    \/ \E config \in RecalConfigs : config /= tubing_config /\ assign_tubing_config(config)

SpecRecal == InitRecal /\ [][NextRecal]_vars

\* A ProtocolBuilder after create_steps has emptied its lists, driven through
\* its create_step_* methods.
InitBuilder == OrchIdle /\ StackIdle /\ BuilderInit /\ InstanceInit

NextBuilder ==
    \/ \E volume \in RequestedVolumes : \E reservoir_id \in ReservoirIds :
           \E extractionfactor \in ExtractionFactors :
               create_step_inject(volume, reservoir_id, 0, extractionfactor)
    \/ \E volume \in RequestedVolumes : create_step_pumpout(volume, "None")
    \/ \E system \in Systems : create_step_signal(system, "msg")
    \/ create_step_acquire(1, 1, "round_0")

SpecBuilder == InitBuilder /\ [][NextBuilder]_vars

\* ---------------------------------------------------------------------------
\* Properties of the orchestration (Spec, FairSpec, SpecLock)
\* ---------------------------------------------------------------------------

NoStopRequested ==
    /\ ~abort_flag
    /\ ~abort_protocol_flag
    /\ ~pause_protocol_flag
    /\ ~graceful_stop_flag

StopRequested == ~NoStopRequested

WorkersStarted == \A s \in Systems : pc[s] /= "new"

\* every worker thread runs: a bound one is in run(), an unbound one has
\* returned at once
WorkersAlive ==
    \A s \in Systems :
        IF bound[s] THEN pc[s] \in {"start", "loop", "run_protocol", "scan", "enumerate"}
        ELSE pc[s] \in {"start", "returned"}

\* worker s leaves run_protocol in this step
LeavesRunProtocol(s) == pc[s] = "enumerate" /\ pc'[s] /= "enumerate"

\* the orchestrator of test_05: fluid and imaging bound, started without a
\* start index, nothing else requested
C2_Started ==
    /\ bound = [s \in Systems |-> s \in {"fluid", "img"}]
    /\ WorkersAlive
    /\ start_protocol_flag
    /\ \A s \in Systems : txchange[s] = <<>>
    /\ fluid_queue = <<>>
    /\ NoStopRequested

\* the controlling thread gave a start index or queued a fluid function
C2_Interfered ==
    \/ fluid_queue /= <<>>
    \/ \E s \in Systems : FirstStartEntry(txchange[s]) /= "None"

C2_Done ==
    /\ poll_protocol_finished
    /\ txchange["fluid"] = <<"X">>
    /\ txchange["img"] = <<"Y">>
    /\ \A s \in Systems : syscalls[s].execute_protocol_entry = 0

\* C2: with fluid = [signal X, wait for signal (imaging, Y)] and imaging =
\* [wait for signal (fluid, X), signal Y], both bound, after start_orchestration
\* and start_protocol every fair execution reaches a state where all finished
\* flags are set, the fluid log is exactly [X], the imaging log exactly [Y] and
\* no execute_protocol_entry call was made (unless the controlling thread asks
\* for a stop, a pause or more work meanwhile).
C2_HandshakeCompletes ==
    C2_Started ~> (C2_Done \/ StopRequested \/ C2_Interfered)

C7_PauseCallsPauseExecutionOnce ==
    [][\A s \in Systems :
          (LeavesRunProtocol(s) /\ bound[s] /\ pause_protocol_flag
           /\ ~abort_flag /\ ~abort_protocol_flag)
          => /\ syscalls'[s].pause_execution = 1
             /\ pc'[s] /= "raised"
             /\ ~finished'[s]]_vars

\* a started protocol that was resumed and that nothing stops
C8_Resumed ==
    /\ WorkersStarted
    /\ start_protocol_flag
    /\ NoStopRequested

\* C8: after a pause of a started protocol, once the protocol is resumed (resume_protocol and
\* start_protocol) the run reaches poll_protocol_finished() = true, unless it
\* is paused or stopped again.  Stated for the orchestrators without a fluid
\* system, whose workers take nothing off the fluid queue.
C8_ResumedRunFinishes ==
    []((pause_protocol_flag /\ start_protocol_flag /\ WorkersStarted /\ ~bound["fluid"]) =>
          [](C8_Resumed => <>(poll_protocol_finished \/ StopRequested)))

\* C9: when abort_protocol has ended an executor's run_protocol, the worker is
\* back in the idle loop of run().
C9_WorkerIdleAfterAbortProtocol ==
    [][\A s \in Systems :
          (LeavesRunProtocol(s) /\ bound[s] /\ abort_protocol_flag
           /\ ~abort_flag /\ ~graceful_stop_flag)
          => pc'[s] = "loop"]_vars

\* C10: a scripted execute_protocol_entry call and a manual
\* execute_system_function call are never in progress together on the same
\* subsystem.
C10_OneCallerPerSystem ==
    \A s \in Systems : Cardinality(inprogress[s]) <= 1

\* a manual call in progress on a subsystem after a scripted call on it has
\* returned
C10_Witness ==
    \E s \in Systems :
        /\ inprogress[s] = {"manual"}
        /\ syscalls[s].execute_protocol_entry = 1

\* some subsystems bound and some not, the workers running, a protocol
\* started and nothing else requested
C11_Started ==
    /\ \E s \in Systems : bound[s]
    /\ \E s \in Systems : ~bound[s]
    /\ WorkersAlive
    /\ start_protocol_flag
    /\ fluid_queue = <<>>
    /\ NoStopRequested

\* C11: with one or two of the three subsystems unbound, a started protocol
\* reaches poll_protocol_finished() = true: the unbound executors have set
\* their flags at start and the bound ones set theirs after their last step
\* (unless the controlling thread asks for a stop, a pause or queues work).
C11_UnboundDoNotBlock ==
    C11_Started ~> (poll_protocol_finished \/ StopRequested \/ fluid_queue /= <<>>)

\* C20: an executor that has gone through run_protocol with nothing stopping
\* it has returned from it and has dispatched the step of its start index
\* (the index of the 'start entry: N' marker in its log, 0 without one) to
\* its subsystem; stated for sequences of hardware steps longer than every
\* start index of the model.
C20_DispatchesFromStartEntry ==
    [][\A s \in Systems :
          (LeavesRunProtocol(s) /\ bound[s] /\ NoStopRequested)
          => /\ pc'[s] /= "raised"
             /\ start_entry[s] = StartEntryOf(txchange[s])
             /\ syscalls'[s].execute_protocol_entry >= 1]_vars

\* C34: an executor that leaves run_protocol while abort or abort-protocol is
\* set has returned from it (it has not left by an exception) and its
\* subsystem's abort_execution() has been called exactly once.
C34_AbortCallsAbortExecutionOnce ==
    [][\A s \in Systems :
          (LeavesRunProtocol(s) /\ bound[s] /\ (abort_flag \/ abort_protocol_flag))
          => /\ syscalls'[s].abort_execution = 1
             /\ pc'[s] /= "raised"]_vars

\* C35: a call an executor makes into its subsystem from housekeeping
\* (abort_execution, pause_execution) is made with the subsystem's guard held
\* by that call, so it never runs while a manual execute_system_function
\* command is running on the same subsystem.
C35_ExecutorCallsHoldGuard ==
    \A s \in Systems :
        "housekeeping" \in inprogress[s] => (lock[s] /\ "manual" \notin inprogress[s])

\* C36: the signal board of an orchestrator object (the flags and logs its
\* handlers read) changes only by calls made on that object: a call made on
\* the other object leaves it as it is.
C36_BoardsAreIndependent ==
    [][\A o \in Instances :
          instance_calls'[o] = instance_calls[o]
          => exchange_dicts'[threadexchange'[o]] = exchange_dicts[threadexchange[o]]]_vars

\* C37: the built-in example protocol (module attribute `protocol`), run with
\* the fluid and the imaging system bound and with nothing stopping it and no
\* start index given, reaches all finished flags set in every fair execution.
C37_ExampleProtocolFinishes ==
    C2_Started ~> (poll_protocol_finished \/ StopRequested \/ C2_Interfered)

\* C38: graceful-stop alone does not end a worker that is inside
\* run_protocol: with graceful-stop set and neither abort flag set, a worker
\* of a bound subsystem that is in run_protocol does not terminate in a step
\* that leaves some finished flag unset.
C38_GracefulStopSparesRunProtocol ==
    [][\A s \in Systems :
          (/\ pc[s] \in {"run_protocol", "scan", "enumerate"}
           /\ graceful_stop_flag /\ ~abort_flag /\ ~abort_protocol_flag
           /\ ~poll_protocol_finished')
          => ~Terminated(s)']_vars

\* the log holds a 'start entry:' marker
HasMarker(log) == \E k \in 1..Len(log) : ContainsStartEntry(log[k])

\* the index of the oldest marker of the log, 0 for a log without one
RECURSIVE OldestStartIndex(_)
OldestStartIndex(log) ==
    IF log = <<>> THEN 0
    ELSE IF ContainsStartEntry(Head(log)) THEN ParseStartEntry(Head(log))
    ELSE OldestStartIndex(Tail(log))

\* C39: run_protocol takes its start index from the oldest 'start entry:'
\* marker of its log (0 without a marker), and no step removes or replaces
\* the oldest marker: whatever start_protocol calls follow, with or without
\* indices, the index a later scan finds is the one posted first.
C39_OldestMarkerWins ==
    [][\A s \in Systems :
          /\ (pc[s] = "scan" /\ pc'[s] = "enumerate")
             => start_entry'[s] = OldestStartIndex(txchange[s])
          /\ HasMarker(txchange[s])
             => /\ HasMarker(txchange'[s])
                /\ OldestStartIndex(txchange'[s]) = OldestStartIndex(txchange[s])]_vars

\* two markers were posted for a bound subsystem, 1 first and 0 after it, and
\* its executor took 1
C39_Witness ==
    \E s \in Systems :
        /\ bound[s]
        /\ txchange[s] = <<"start entry: 1", "start entry: 0">>
        /\ pc[s] = "enumerate"
        /\ start_entry[s] = 1

\* every worker thread has ended and no join is pending
AllWorkersEnded ==
    /\ \A s \in Systems : Terminated(s)
    /\ ctl.op /= "join"

\* worker s, not yet inside run_protocol, does not enter it in this step and
\* no call reaches its subsystem
StaysOutOfRunProtocol(s) ==
    pc[s] \in {"start", "loop"}
    => /\ pc'[s] \in {"start", "loop", "returned"}
       /\ syscalls'[s] = syscalls[s]

\* C21: once abort_orchestration has set the abort flag of a started
\* orchestrator, all three workers eventually end and the joins of
\* abort_orchestration return; a worker that finds the abort flag set before
\* it has entered run_protocol enters no run_protocol and makes no call into
\* its subsystem.
C21_AbortEndsWorkers ==
    /\ (abort_flag /\ WorkersStarted) ~> AllWorkersEnded
    /\ [][\A s \in Systems : abort_flag => StaysOutOfRunProtocol(s)]_vars

\* abort_orchestration has returned on a started orchestrator: every worker
\* has ended, a bound one by leaving its idle loop on the abort flag
C21_Witness ==
    /\ abort_flag
    /\ ~graceful_stop_flag
    /\ ctl = Idle
    /\ \A s \in Systems : Terminated(s)
    /\ \E s \in Systems : bound[s] /\ pc[s] = "returned"

\* C22: once end_orchestration has set the graceful-stop flag of a started
\* orchestrator (in particular after a run whose finished flags are all set),
\* every worker eventually leaves its loop and ends and the joins of
\* end_orchestration return; no worker enters run_protocol or calls its
\* subsystem once the flag is set.
C22_GracefulStopEndsWorkers ==
    /\ (graceful_stop_flag /\ WorkersStarted) ~> AllWorkersEnded
    /\ [][\A s \in Systems : graceful_stop_flag => StaysOutOfRunProtocol(s)]_vars

\* end_orchestration has returned after a run whose finished flags are all set
C22_Witness ==
    /\ graceful_stop_flag
    /\ ~abort_flag
    /\ start_protocol_flag
    /\ poll_protocol_finished
    /\ ctl = Idle
    /\ \A s \in Systems : Terminated(s)

\* the signal board: flags, finished events, logs, locks and the fluid queue
board == <<flagvars, finished, txchange, lock, inprogress, fluid_queue>>

\* C23: a worker thread, once started, is never started again (at most one
\* worker per subsystem), and an orchestrator call that ends with RuntimeError
\* leaves the workers and the signal board as they were.
C23_SecondStartLaunchesNothing ==
    [][/\ \A s \in Systems : (pc[s] /= "new" /\ pc'[s] = "start") => pc[s] = "start"
       /\ (ctl' = IdleRaised /\ ncalls' /= ncalls) => (pc' = pc /\ board' = board)]_vars

\* a second start_orchestration has just raised while a bound worker is in its
\* idle loop
C23_Witness ==
    /\ ctl = IdleRaised
    /\ \E s \in Systems : bound[s] /\ pc[s] = "loop"
    /\ \A s \in Systems : pc[s] /= "new"

\* a step of the controlling thread
ControllerStep == ncalls' /= ncalls \/ ctl' /= ctl

IsPrefix(log, later) ==
    /\ Len(log) <= Len(later)
    /\ \A k \in 1..Len(log) : later[k] = log[k]

\* C25: every message log only grows at its end, an append happens with the
\* guard of that subsystem taken by the appender, and a worker scans a log
\* while it holds the guard of that subsystem (the guard is held, and by
\* nobody else).
C25_LogsAppendOnlyUnderGuard ==
    [][\A s \in Systems :
          /\ IsPrefix(txchange[s], txchange'[s])
          /\ txchange'[s] /= txchange[s] => ~lock[s]
          /\ (pc[s] = "scan" /\ pc'[s] /= "scan") => (lock[s] /\ inprogress[s] = {})]_vars

\* the guards held by the controlling thread
HeldByController == {s \in Systems : "manual" \in inprogress[s]}

\* C26: no thread holds the guards of two subsystems at once (the controlling
\* thread holds at most one; a worker holds its own only inside search_message
\* and a direct execute_protocol_entry call only that of its handler), and
\* every guard that is held is held by a call that is running inside its
\* system, not by a thread that waits for another guard.
C26_OneGuardPerThread ==
    /\ Cardinality(HeldByController) <= 1
    /\ \A s \in Systems : lock[s] <=> inprogress[s] /= {}

\* two threads hold the guards of two different subsystems at the same time
C26_Witness ==
    \E s \in Systems : \E u \in Systems \ {s} :
        /\ inprogress[s] = {"manual"}
        /\ inprogress[u] = {"scripted"}
        /\ lock[s]
        /\ lock[u]

\* ---------------------------------------------------------------------------
\* Properties of the tubing stack (SpecStack)
\* ---------------------------------------------------------------------------

RECURSIVE stack_sum(_, _)
stack_sum(entries, r) ==
    IF entries = {} THEN 0
    ELSE LET step == CHOOSE k \in entries : TRUE
         IN  tuple_sum(tubing_stack[step], r) + stack_sum(entries \ {step}, r)

\* the sum of the volumes of all stack entries that name reservoir r
Drawn(r) == stack_sum(DOMAIN tubing_stack, r)

RECURSIVE requested_upto(_, _)
requested_upto(n, r) ==
    IF n = 0 THEN 0
    ELSE LET pentry == protocol[n]
         IN  requested_upto(n - 1, r)
             + (IF pentry.type = "inject" /\ pentry.reservoir_id = r THEN pentry.volume
                ELSE IF pentry.type = "flush" /\ r = flushbuffer_a
                     THEN pentry.flushfactor
                          * (tubing_config.pump_a[flushbuffer_a]
                             + tubing_config.pump_a_valve_flush)
                ELSE 0)

\* the total volume the protocol requests from reservoir r
Requested(r) == requested_upto(Len(protocol), r)

AssembledFromZero == stack_status = [result |-> "none", i |-> 0]

\* C3 as stated: after the stack is assembled from step 0, every reservoir's
\* stack entries sum to its requested total plus a dead volume fronting it
\* (the tubing from the reservoir to the pump, or on to the sample), or plus
\* zero.
C3_SumIsRequestedPlusDeadVolume ==
    AssembledFromZero =>
        \A r \in Reservoirs :
            Drawn(r) - Requested(r) \in {0, tubing_config.pump_a[r], calc_vol_to_inlet(r)}

\* C3 amended: after the stack is assembled from step 0, the stack entries of
\* every reservoir other than the flush buffer sum to exactly its requested
\* total, and those of the flush buffer sum to at least its requested total
\* and at most that plus the flush buffer's dead volume to the sample.
C3_VolumeConservation ==
    AssembledFromZero =>
        \A r \in Reservoirs :
            IF r = flushbuffer_a
            THEN /\ Requested(r) <= Drawn(r)
                 /\ Drawn(r) <= Requested(r) + calc_vol_to_inlet(r)
            ELSE Drawn(r) = Requested(r)

\* a stack assembled from step 0 for a reagent with dead volume in front of it
\* and a later step, where the flush buffer pushes the rest through
C3_Witness ==
    /\ AssembledFromZero
    /\ Len(protocol) >= 2
    /\ \E r \in Reservoirs \ {flushbuffer_a} :
           /\ tubing_config.pump_a[r] > 0
           /\ Requested(r) > 0
           /\ Drawn(r) = Requested(r)
    /\ Drawn(flushbuffer_a) > Requested(flushbuffer_a)

\* the reservoir and the volume of a protocol entry; an entry that is neither
\* inject nor flush has reservoir 0 and volume 0
EntryReservoir(pentry) ==
    IF pentry.type = "inject" THEN pentry.reservoir_id
    ELSE IF pentry.type = "flush" THEN flushbuffer_a
    ELSE 0

EntryVolume(pentry) ==
    IF pentry.type = "inject" THEN pentry.volume
    ELSE IF pentry.type = "flush"
         THEN pentry.flushfactor
              * (tubing_config.pump_a[flushbuffer_a] + tubing_config.pump_a_valve_flush)
    ELSE 0

\* the cumulative dead volume from reservoir r to the sample
DeadVol(r) ==
    tubing_config.pump_a[r] + tubing_config.pump_a_valve_flush
    + tubing_config.valve_flush_sample

\* the first step of the assembled stack
StackFrom == CHOOSE k \in DOMAIN tubing_stack : \A j \in DOMAIN tubing_stack : k <= j

RECURSIVE tuples_total(_)
tuples_total(injection_tuples) ==
    IF injection_tuples = <<>> THEN 0
    ELSE Head(injection_tuples)[2] + tuples_total(Tail(injection_tuples))

\* the sum of the volumes of the entries of stack[step]
StepSum(step) == tuples_total(tubing_stack[step])

\* V[i] + deadvol(R[i]) - deadvol(R[i-1]), and V[i] + deadvol(R[i]) for the
\* first step of the stack
StepNeed(step) ==
    EntryVolume(protocol[step + 1]) + DeadVol(EntryReservoir(protocol[step + 1]))
    - (IF step = StackFrom THEN 0 ELSE DeadVol(EntryReservoir(protocol[step])))

RECURSIVE volume_from(_)
volume_from(step) ==
    IF step >= Len(protocol) THEN 0
    ELSE EntryVolume(protocol[step + 1]) + volume_from(step + 1)

RECURSIVE taken_before(_)
taken_before(step) ==
    IF step <= StackFrom THEN 0 ELSE StepSum(step - 1) + taken_before(step - 1)

\* what is left of the column when step is stacked: the volumes of the steps
\* from the first one on and the flush buffer's dead volume, less what the
\* earlier steps took
Left(step) == volume_from(StackFrom) + DeadVol(flushbuffer_a) - taken_before(step)

\* C15 as stated: for every step of an assembled stack the volumes of its
\* entries sum to V[i] + deadvol(R[i]) - deadvol(R[i-1]) (V[i] + deadvol(R[i])
\* for the first step).
C15_StepSumIsNeed ==
    tubing_stack /= <<>> =>
        \A step \in DOMAIN tubing_stack : StepSum(step) = StepNeed(step)

\* C15 amended: for every step of an assembled stack with need
\* V[i] + deadvol(R[i]) - deadvol(R[i-1]) (an entry that is no fluid step
\* counting as reservoir 0 with volume 0): a need of zero or more is met as far
\* as the column lasts, the entries sum to the smaller of the need and what is
\* left of the column; under a negative need they sum to the need or to zero.
C15_StepSumIsNeedWhileColumnLasts ==
    tubing_stack /= <<>> =>
        \A step \in DOMAIN tubing_stack :
            IF StepNeed(step) >= 0
            THEN StepSum(step) = (IF StepNeed(step) <= Left(step)
                                  THEN StepNeed(step) ELSE Left(step))
            ELSE StepSum(step) \in {0, StepNeed(step)}

\* a stack with a later step that gets its whole need, dead volume included,
\* and a step for which the column does not last
C15_Witness ==
    /\ tubing_stack /= <<>>
    /\ \E step \in DOMAIN tubing_stack :
           /\ step > StackFrom
           /\ StepNeed(step) > EntryVolume(protocol[step + 1])
           /\ StepSum(step) = StepNeed(step)
    /\ \E step \in DOMAIN tubing_stack :
           /\ StepNeed(step) > Left(step)
           /\ StepSum(step) = Left(step)

\* C16 as stated: for [inject(A, 500), inject(B, 200)] with 100 from A to the
\* pump and 50 from the pump to the sample, step 0 is exactly [(A, 650)] and
\* step 1 is an A entry followed by a B entry.
C16_StepZeroIsAllA ==
    AssembledFromZero =>
        /\ tubing_stack[0] = <<<<0, 650>>>>
        /\ Len(tubing_stack[1]) = 2
        /\ tubing_stack[1][1][1] = 0
        /\ tubing_stack[1][2][1] = 1

\* C16 amended: step 0 is exactly [(A, 500), (B, 150)], the dead volume filled
\* with the next step's reagent, and step 1 is the B entry (B, 50) followed by
\* a flush buffer entry.
C16_StepZeroFrontLoadsB ==
    AssembledFromZero =>
        /\ tubing_stack[0] = <<<<0, 500>>, <<1, 150>>>>
        /\ Len(tubing_stack[1]) = 2
        /\ tubing_stack[1][1] = <<1, 50>>
        /\ tubing_stack[1][2][1] = flushbuffer_a
        /\ tubing_stack[1][2][2] > 0

\* the scenario's stack assembled from step 0
C16_Witness ==
    /\ AssembledFromZero
    /\ Len(protocol) = 2
    /\ protocol[1].volume = 500
    /\ tubing_config.pump_a[0] = 100
    /\ DOMAIN tubing_stack = {0, 1}

ZeroDeadVolumes ==
    /\ \A r \in Reservoirs : tubing_config.pump_a[r] = 0
    /\ tubing_config.pump_a_valve_flush = 0
    /\ tubing_config.valve_flush_sample = 0

\* C17: with every dead volume zero, the assembly from step 0 gives, for every
\* step sequence, the stack of the single steps: [(reservoir, volume)] for an
\* inject step and the empty list for a step that is no fluid step.
C17_ZeroDeadMatchesSteps ==
    (ZeroDeadVolumes /\ stack_status.result /= "never" /\ stack_status.i = 0) =>
        /\ stack_status.result = "none"
        /\ \A step \in 0..(Len(protocol) - 1) :
               LET pentry == protocol[step + 1]
               IN  /\ pentry.type = "inject" =>
                          tubing_stack[step] = <<<<pentry.reservoir_id, pentry.volume>>>>
                   /\ pentry.type = "acquire" => tubing_stack[step] = <<>>

C31_EntriesArePositive ==
    tubing_stack /= <<>> =>
        \A step \in DOMAIN tubing_stack :
            \A k \in 1..Len(tubing_stack[step]) : tubing_stack[step][k][2] > 0

\* the entries of the stack from step on, in step order
RECURSIVE stack_concat(_)
stack_concat(step) ==
    IF step >= Len(protocol) THEN <<>>
    ELSE tubing_stack[step] \o stack_concat(step + 1)

\* the requested sequence (R[k], V[k]) from step on, ending with the flush
\* buffer and its dead volume to the sample
RECURSIVE requested_from(_)
requested_from(step) ==
    IF step >= Len(protocol) THEN <<<<flushbuffer_a, DeadVol(flushbuffer_a)>>>>
    ELSE <<<<EntryReservoir(protocol[step + 1]), EntryVolume(protocol[step + 1])>>>>
         \o requested_from(step + 1)

\* seq with its zero volumes dropped and its adjacent entries of one reservoir
\* merged into one entry (their volumes added), appended to merged_so_far
RECURSIVE merge_adjacent(_, _)
merge_adjacent(merged_so_far, seq) ==
    IF seq = <<>> THEN merged_so_far
    ELSE LET entry == Head(seq)
             n == Len(merged_so_far)
         IN  IF entry[2] = 0 THEN merge_adjacent(merged_so_far, Tail(seq))
             ELSE IF n > 0 /\ merged_so_far[n][1] = entry[1]
                  THEN IF merged_so_far[n][2] + entry[2] = 0
                       THEN merge_adjacent(SubSeq(merged_so_far, 1, n - 1), Tail(seq))
                       ELSE merge_adjacent(
                                [merged_so_far EXCEPT
                                    ![n] = <<entry[1], merged_so_far[n][2] + entry[2]>>],
                                Tail(seq))
                  ELSE merge_adjacent(Append(merged_so_far, entry), Tail(seq))

\* drawn is an initial part of requested, its last entry possibly cut short
IsDrawnPrefix(drawn, requested) ==
    /\ Len(drawn) <= Len(requested)
    /\ \A k \in 1..Len(drawn) :
           /\ drawn[k][1] = requested[k][1]
           /\ IF k < Len(drawn) THEN drawn[k][2] = requested[k][2]
              ELSE drawn[k][2] > 0 /\ drawn[k][2] <= requested[k][2]

\* C32: the entries of all steps of an assembled stack, put one after the
\* other in step order with adjacent entries of one reservoir merged, are an
\* initial part of the requested sequence (R[0], V[0]), (R[1], V[1]), ...,
\* (flush buffer, its dead volume to the sample) with the zero volumes dropped:
\* fluid is drawn from the earliest portion not yet consumed.
C32_DrawnInRequestedOrder ==
    tubing_stack /= <<>> =>
        IsDrawnPrefix(merge_adjacent(<<>>, stack_concat(StackFrom)),
                      merge_adjacent(<<>>, requested_from(StackFrom)))

\* a stack assembled from step 0 whose first step draws from two reservoirs
\* and whose second step goes on with the reservoir the first step ended with
C32_Witness ==
    /\ stack_status = [result |-> "none", i |-> 0]
    /\ Len(protocol) >= 2
    /\ Len(tubing_stack[0]) = 2
    /\ tubing_stack[0][1][1] /= tubing_stack[0][2][1]
    /\ tubing_stack[1] /= <<>>
    /\ tubing_stack[1][1][1] = tubing_stack[0][2][1]
    /\ tubing_stack[1][1][2] > 0

\* C33: _assemble_tubing_stack(i) ends without an error and leaves a stack
\* with an entry (possibly empty) for every step from i to the last one.
C33_AssemblyCompletes ==
    stack_status.result /= "never" =>
        /\ stack_status.result = "none"
        /\ DOMAIN tubing_stack = stack_status.i..(Len(protocol) - 1)

\* ---------------------------------------------------------------------------
\* Properties of the walked fluid system (SpecWalk)
\* ---------------------------------------------------------------------------

RECURSIVE column_sum(_, _, _)
column_sum(column, entries, r) ==
    IF entries = {} THEN 0
    ELSE LET step == CHOOSE k \in entries : TRUE
         IN  tuple_sum(column[step], r) + column_sum(column, entries \ {step}, r)

\* the executor has handed over every entry it does not handle itself, from
\* entry 0 to the last one, and every call returned
WalkComplete ==
    /\ 0 \in Delegated
    /\ \A k \in Delegated : k <= last_protocol_entry
    /\ stack_status.result = "none"

\* C19: after the executor has walked the whole sequence from index 0, the
\* volume pumped from every reservoir is that reservoir's total in the stack
\* assembled at the first step: nothing is drawn a second time, also when
\* entries the executor handles itself lie between the injections.
C19_PumpedIsFirstStack ==
    WalkComplete =>
        \A column \in {assemble(0).column} :
            \A r \in Reservoirs : pumped[r] = column_sum(column, DOMAIN column, r)


\* execute_protocol_entry returned in this step
EntryExecuted == last_protocol_entry' /= last_protocol_entry

\* C29: a call execute_protocol_entry(i) that returns has assembled the stack
\* anew from step i exactly when i is 0 or i is not the successor of the entry
\* executed last; otherwise it has left the stack as it was; in both cases the
\* entry executed last is i afterwards.
C29_ReassemblesWhenOutOfOrder ==
    [][EntryExecuted =>
          IF last_protocol_entry' = 0 \/ last_protocol_entry' /= last_protocol_entry + 1
          THEN /\ tubing_stack' = assemble(last_protocol_entry').column
               /\ stack_status' = [result |-> "none", i |-> last_protocol_entry']
          ELSE /\ tubing_stack' = tubing_stack
               /\ stack_status' = stack_status]_vars

\* entry 0 was not handed over, entry 1 was executed out of order on a stack
\* assembled from step 1, and entry 2 was executed on that same stack
C29_Witness ==
    /\ last_protocol_entry = 2
    /\ stack_status = [result |-> "none", i |-> 1]
    /\ DOMAIN tubing_stack = {1, 2}
    /\ \E r \in Reservoirs : pumped[r] > 0

\* the column is what _assemble_tubing_stack gives from some step up to i
\* with the tubing configuration now in force
AssembledFromCurrentConfig(column, i) ==
    \E k \in 0..i : assemble(k) = [error |-> "none", column |-> column]

\* C30: after _assign_tubing_config has replaced the tubing configuration, the
\* next execute_protocol_entry uses a stack recomputed from the new dead
\* volumes, also when its index is the successor of the entry executed last:
\* the stack a returned call has used is one assembled from the tubing
\* configuration in force at the call (stated for the calls whose step can be
\* assembled from with that configuration).
C30_StackFollowsTubingConfig ==
    [][(EntryExecuted /\ assemble(last_protocol_entry').error = "none") =>
          AssembledFromCurrentConfig(tubing_stack', last_protocol_entry')]_vars

\* ---------------------------------------------------------------------------
\* Properties of the ProtocolBuilder (SpecBuilder)
\* ---------------------------------------------------------------------------

RECURSIVE inject_total(_, _)
\* the stored volumes of the inject steps of `fluid` that name reservoir r
inject_total(fluid, r) ==
    IF fluid = <<>> THEN 0
    ELSE (IF Head(fluid).type = "inject" /\ Head(fluid).reservoir_id = r
          THEN Head(fluid).volume ELSE 0) + inject_total(Tail(fluid), r)

InjectsAccounted ==
    /\ \A k \in 1..Len(steps.fluid) :
           steps.fluid[k].type = "inject" => steps.fluid[k].volume >= 1
    /\ \A r \in DOMAIN reservoir_vols : reservoir_vols[r] = inject_total(steps.fluid, r)

\* the step added in this step of the builder is an inject step
InjectAdded ==
    /\ Len(steps'.fluid) = Len(steps.fluid) + 1
    /\ steps'.fluid[Len(steps'.fluid)].type = "inject"

====
